---- MODULE Spec2Model ----
(***************************************************************************)
(* Model of the pytket-service request handlers (app/routes.py):           *)
(*   - transpile_circuit: request validation, loader, backend resolver and *)
(*     the transpile convergence loop with its final validity guard;       *)
(*   - execute_circuit / get_result: the job queue, the Result store, the   *)
(*     worker pool and polling.                                            *)
(* The two halves share no state, so each has its own specification:       *)
(* SpecTranspile and SpecJobs.                                             *)
(***************************************************************************)
EXTENDS Integers, Sequences, FiniteSets, TLC

\* ---------------------------------------------------------------- bounds
MaxQubits == 2
MaxDepth == 2
MaxAttempts == 3
MaxJobs == 2
NumWorkers == 2

\* ------------------------------------------------------------- responses
\* flask.abort(code): an HTTP error page, no JSON body.
Abort(code) == [status |-> code, body |-> [html |-> code]]

Jsonify(code, b) == [status |-> code, body |-> b]

NoResponse == [status |-> 0, body |-> [html |-> 0]]

\* --------------------------------------------------------------- requests
\* A request body: whether JSON is present and which fields it carries.
\* impl_url is "absent", "py" (matches .*/<file>.py) or "other".
Requests ==
  { r \in [json : BOOLEAN, impl_url : {"absent", "py", "other"},
           impl_data : BOOLEAN, qpu_name : BOOLEAN,
           provider : BOOLEAN, sdk : BOOLEAN] :
      ~r.json => /\ r.impl_url = "absent" /\ ~r.impl_data
                 /\ ~r.qpu_name /\ ~r.provider /\ ~r.sdk }

NoRequest ==
  [json |-> FALSE, impl_url |-> "absent", impl_data |-> FALSE,
   qpu_name |-> FALSE, provider |-> FALSE, sdk |-> FALSE]

\* --------------------------------------------------------------- circuits
\* A circuit is opaque; the handler only looks at: whether it is a tket
\* circuit (is_tk_circuit), whether the backend accepts it (valid_circuit),
\* n_qubits and depth().  gen = 0 for a circuit produced by the loader,
\* gen = 1 for one returned by a lowering attempt.  Only tket circuits can
\* be valid for a backend.
Circuits ==
  { c \in [tk : BOOLEAN, valid : BOOLEAN, n_qubits : 1..MaxQubits,
           depth : 1..MaxDepth, gen : 0..1] : c.valid => c.tk }

LoadedCircuits == { c \in Circuits : c.gen = 0 }

LoweredCircuits == { c \in Circuits : c.gen = 1 }

NoCircuit == [tk |-> FALSE, valid |-> FALSE, n_qubits |-> 0, depth |-> 0, gen |-> 0]

is_tk_circuit(c) == c.tk

valid_circuit(c) == c.valid

\* Outcomes of one call of tket_transpile_circuit.
LoweringOutcomes == {"Lowered", "UnsupportedGate", "TooManyQubits", "Other"}

\* Saturating increment of a history counter.
Bump(n) == IF n < MaxAttempts THEN n + 1 ELSE n

VARIABLES
  tpc,                  \* transpile handler: "idle", "loop", "break", "done"
  treq,                 \* the request being served
  loadResult,           \* "notcalled", "circuit", "none", "raise"
  backendResult,        \* "notcalled", "found", "none"
  loaded,               \* the circuit the loader returned
  circuit,              \* the working circuit
  precompiled_circuit,  \* the precompile flag
  tresp,                \* the response of the transpile request
  attempts,             \* history: lowering attempts made (saturating)
  preAttempts,          \* history: attempts made with precompile=true
  failures,             \* history: attempts that raised
  escalations,          \* history: times the flag was switched on
  last,                 \* history: outcome of the last attempt, or "none"
  lastArg,              \* history: circuit and flag handed to the last attempt
  exited                \* history: the final validity guard was evaluated

tvars == <<tpc, treq, loadResult, backendResult, loaded, circuit,
           precompiled_circuit, tresp, attempts, preAttempts, failures,
           escalations, last, lastArg, exited>>

VARIABLES
  nextId,      \* ids handed out so far + 1 (job ids are fresh)
  queue,       \* app.execute_queue: sequence of job ids
  handler,     \* per id: "none", "enqueued" (between lines 129 and 130), "done"
  ereq,        \* history: the execute request, when the last request
               \* the API received was an execute
  erej,        \* history: the status it was rejected with, 0 if it was not
  eresp,       \* per id: the response of the execute request that made it
  store,       \* the Result table: function from the ids present to records
  worker,      \* per worker: the job id it is running, 0 when idle
  jobStatus,   \* per id: "unused", "queued", "started", "finished", "failed"
  writes,      \* history: per id, completion writes made (saturating)
  presp        \* history: the poll [id, resp], when the last request the
               \* API received was a poll

jvars == <<nextId, queue, handler, ereq, erej, eresp, store, worker,
           jobStatus, writes, presp>>

vars == <<tvars, jvars>>

NoArg == [circuit |-> NoCircuit, precompile |-> FALSE]

\* Mutant: the flag starts switched on.
InitialPrecompileTrue == TRUE

\* precompiled_circuit = False (line 69)
InitialPrecompile == FALSE

InitTranspile ==
  /\ tpc = "idle"
  /\ treq = NoRequest
  /\ loadResult = "notcalled"
  /\ backendResult = "notcalled"
  /\ loaded = NoCircuit
  /\ circuit = NoCircuit
  /\ precompiled_circuit = InitialPrecompile
  /\ tresp = NoResponse
  /\ attempts = 0
  /\ preAttempts = 0
  /\ failures = 0
  /\ escalations = 0
  /\ last = "none"
  /\ lastArg = NoArg
  /\ exited = FALSE

\* Lines 36-46: the request checks that precede the loader.  Returns the
\* status the handler stops with, or 0 when the request passes.
TranspileValidate(r) ==
  IF ~r.json \/ r.impl_url = "absent" \/ ~r.qpu_name THEN 400
  ELSE IF ~r.provider \/ ~r.sdk THEN 500      \* KeyError on request.json[...]
  ELSE IF r.impl_url # "py" THEN 500          \* re.match(...) is None
  ELSE 0

\* A finished request leaves the handler with a response and no loop state.
Finish(r, lr, br, c, resp) ==
  /\ tpc' = "done"
  /\ treq' = r
  /\ loadResult' = lr
  /\ backendResult' = br
  /\ loaded' = c
  /\ circuit' = c
  /\ tresp' = resp

\* transpile_circuit, lines 32-69: a request arrives, is validated, the
\* implementation is loaded and the backend resolved.
TranspileStart ==
  /\ tpc \in {"idle", "done"}
  /\ precompiled_circuit' = InitialPrecompile
  /\ attempts' = 0 /\ preAttempts' = 0 /\ failures' = 0 /\ escalations' = 0
  /\ last' = "none" /\ lastArg' = NoArg /\ exited' = FALSE
  /\ UNCHANGED jvars
  /\ \E r \in Requests :
       IF TranspileValidate(r) # 0
       THEN Finish(r, "notcalled", "notcalled", NoCircuit,
                   Abort(TranspileValidate(r)))
       ELSE
         \/ \* the loader raises: caught at line 58, answered 200 {error}
            Finish(r, "raise", "notcalled", NoCircuit,
                   Jsonify(200, [error |-> "loader exception"]))
         \/ \* the loader yields no circuit: abort(404) at line 56 is raised
            \* inside the try block and caught by `except Exception`
            Finish(r, "none", "notcalled", NoCircuit,
                   Jsonify(200, [error |-> "404 Not Found"]))
         \/ \E c \in LoadedCircuits :
              \/ \* get_backend yields no backend: abort(404), line 67
                 Finish(r, "circuit", "none", c, Abort(404))
              \/ /\ tpc' = "loop"
                 /\ treq' = r
                 /\ loadResult' = "circuit"
                 /\ backendResult' = "found"
                 /\ loaded' = c
                 /\ circuit' = c
                 /\ tresp' = NoResponse

\* Mutant: every unsupported-gate failure escalates and retries.
AlwaysEscalate(flag) == TRUE

\* except UnsupportedGateException (lines 80-91): TRUE when the loop
\* continues with the flag switched on, FALSE when it breaks.
EscalateOnUnsupported(flag) == ~flag

\* Mutant: too-many-qubits is answered like any other failure.
TooManyQubitsAsAbort == Abort(500)

\* except TooManyQubitsException (lines 93-96)
TooManyQubitsResponse == Jsonify(200, [error |-> "too many qubits required"])

\* Mutant: an unexpected failure is answered like a recognized one.
OtherFailureAsError == Jsonify(200, [error |-> "compilation failed"])

\* except Exception (lines 98-100)
OtherFailureResponse == Abort(500)

\* Mutant: the retry starts again from the circuit the loader returned.
RetryFromOriginal(cur, orig) == orig

\* The working circuit after tket_transpile_circuit raised: the assignment
\* at line 73 did not take place, so `circuit` keeps the value it had.
CircuitAfterUnsupported(cur, orig) == cur

\* One iteration of `while not is_tk_circuit(circuit)` (lines 70-100).
LoopIter ==
  /\ tpc = "loop"
  /\ ~is_tk_circuit(circuit)
  /\ attempts' = Bump(attempts)
  /\ preAttempts' = IF precompiled_circuit THEN Bump(preAttempts) ELSE preAttempts
  /\ lastArg' = [circuit |-> circuit, precompile |-> precompiled_circuit]
  /\ UNCHANGED <<treq, loadResult, backendResult, loaded, exited>>
  /\ UNCHANGED jvars
  /\ \E o \in LoweringOutcomes :
       /\ last' = o
       /\ failures' = IF o = "Lowered" THEN failures ELSE Bump(failures)
       /\ CASE o = "Lowered" ->
                 /\ \E c \in LoweredCircuits : circuit' = c
                 /\ UNCHANGED <<tpc, precompiled_circuit, tresp, escalations>>
            [] o = "UnsupportedGate" ->
                 /\ circuit' = CircuitAfterUnsupported(circuit, loaded)
                 /\ tresp' = tresp
                 /\ IF EscalateOnUnsupported(precompiled_circuit)
                    THEN /\ precompiled_circuit' = TRUE
                         /\ escalations' = Bump(escalations)
                         /\ tpc' = "loop"
                    ELSE /\ precompiled_circuit' = precompiled_circuit
                         /\ escalations' = escalations
                         /\ tpc' = "break"
            [] o = "TooManyQubits" ->
                 /\ tpc' = "done"
                 /\ tresp' = TooManyQubitsResponse
                 /\ UNCHANGED <<circuit, precompiled_circuit, escalations>>
            [] o = "Other" ->
                 /\ tpc' = "done"
                 /\ tresp' = OtherFailureResponse
                 /\ UNCHANGED <<circuit, precompiled_circuit, escalations>>

\* Mutant: there is no final guard.
FinalGuardSkipped(c) == TRUE

\* Mutant: the final guard trusts the loop's own check.
FinalGuardTrustsLoop(c) == is_tk_circuit(c)

\* Lines 102-112: whether the final guard lets the circuit through.
FinalGuardPasses(c) == valid_circuit(c)

\* The loop has ended (its condition is false, or it was left by break):
\* final validity guard and the metrics response.
FinalGuard ==
  /\ \/ tpc = "loop" /\ is_tk_circuit(circuit)
     \/ tpc = "break"
  /\ tpc' = "done"
  /\ exited' = TRUE
  /\ tresp' = IF FinalGuardPasses(circuit)
              THEN Jsonify(200, [depth |-> circuit.depth, width |-> circuit.n_qubits])
              ELSE Abort(500)
  /\ UNCHANGED <<treq, loadResult, backendResult, loaded, circuit,
                 precompiled_circuit, attempts, preAttempts, failures,
                 escalations, last, lastArg>>
  /\ UNCHANGED jvars


\* ===================================================== jobs and results
JobIds == 1..MaxJobs

\* An id no job ever gets, for polls of unknown ids.
UnknownId == MaxJobs + 1

Workers == 1..NumWorkers

\* json.dumps / json.loads on the stored payload: the store holds text.
Dumps(v) == <<"json", v>>

Loads(s) == s[2]

\* Result.result is nullable until the record is complete.
NullResult == <<"null">>

\* What a worker's pipeline can end with: the measurement payload, or an
\* error payload for a convergence-loop failure or a backend execution error.
WorkerPayloads ==
  { [counts |-> "measured"], [error |-> "too many qubits required"],
    [error |-> "unrecoverable"], [error |-> "execution failed"] }

NoPoll == [id |-> 0, resp |-> NoResponse]

InitJobs ==
  /\ nextId = 1
  /\ queue = <<>>
  /\ handler = [j \in JobIds |-> "none"]
  /\ ereq = NoRequest
  /\ erej = 0
  /\ eresp = [j \in JobIds |-> NoResponse]
  /\ store = [j \in {} |-> NullResult]
  /\ worker = [w \in Workers |-> 0]
  /\ jobStatus = [j \in JobIds |-> "unused"]
  /\ writes = [j \in JobIds |-> 0]
  /\ presp = NoPoll

\* Lines 118-126 of execute_circuit: status the handler stops with, or 0.
ExecuteValidate(r) ==
  IF ~r.json \/ r.impl_url = "absent" \/ ~r.qpu_name THEN 400
  ELSE IF ~r.provider \/ ~r.sdk THEN 500      \* KeyError on request.json[...]
  ELSE 0

\* Mutant: the job is put on the queue twice.
EnqueueTwice(q, id) == Append(Append(q, id), id)

\* app.execute_queue.enqueue(...), line 128: the job goes on the queue once.
Enqueue(q, id) == Append(q, id)

\* Mutant: the handler runs the pipeline itself and stores its outcome.
NewResultComplete(id) ==
  [id |-> id, complete |-> TRUE, result |-> Dumps([counts |-> "measured"])]

\* Result(id=job.get_id()): complete defaults to false, result to null.
NewResult(id) == [id |-> id, complete |-> FALSE, result |-> NullResult]

\* Mutant: the record is never added.
AddNothing(st, id) == st

\* db.session.add(result); db.session.commit(), lines 131-132: an INSERT
\* under the primary key id.
AddResult(st, id) ==
  [i \in DOMAIN st \cup {id} |-> IF i = id THEN NewResult(id) ELSE st[i]]

\* Lines 135-139.
AcceptedResponse(id) ==
  [status |-> 202, body |-> [Location |-> id], header |-> [Location |-> id]]

\* execute_circuit, lines 116-129: validation, then the enqueue.  A request
\* that fails validation is answered at once.
ExecuteEnqueue ==
  /\ \E r \in Requests :
       /\ ereq' = r
       /\ IF ExecuteValidate(r) # 0
          THEN /\ erej' = ExecuteValidate(r)
               /\ UNCHANGED <<nextId, queue, handler, jobStatus>>
          ELSE /\ nextId <= MaxJobs
               /\ erej' = 0
               /\ queue' = Enqueue(queue, nextId)
               /\ handler' = [handler EXCEPT ![nextId] = "enqueued"]
               /\ jobStatus' = [jobStatus EXCEPT ![nextId] = "queued"]
               /\ nextId' = nextId + 1
  /\ presp' = NoPoll
  /\ UNCHANGED <<eresp, store, worker, writes>>
  /\ UNCHANGED tvars

\* execute_circuit, lines 130-139: the Result record is added and committed,
\* then the 202 response is built.  A duplicate primary key makes the commit
\* fail (IntegrityError, HTTP 500) and leaves the table as it was.
ExecuteCommit ==
  /\ \E id \in JobIds :
       /\ handler[id] = "enqueued"
       /\ handler' = [handler EXCEPT ![id] = "done"]
       /\ IF id \in DOMAIN store
          THEN /\ store' = store
               /\ eresp' = [eresp EXCEPT ![id] = Abort(500)]
          ELSE /\ store' = AddResult(store, id)
               /\ eresp' = [eresp EXCEPT ![id] = AcceptedResponse(id)]
  /\ UNCHANGED <<nextId, queue, ereq, erej, worker, jobStatus, writes, presp>>
  /\ UNCHANGED tvars

\* An idle worker takes the job at the head of the queue.
WorkerTake ==
  /\ \E w \in Workers :
       /\ worker[w] = 0
       /\ queue # <<>>
       /\ worker' = [worker EXCEPT ![w] = Head(queue)]
       /\ queue' = Tail(queue)
       /\ jobStatus' = [jobStatus EXCEPT ![Head(queue)] = "started"]
  /\ UNCHANGED <<nextId, handler, ereq, erej, eresp, store, writes, presp>>
  /\ UNCHANGED tvars

\* The worker's write of the outcome into the Result record of its job.
CompleteResult(st, id, p) ==
  [st EXCEPT ![id] = [id |-> id, complete |-> TRUE, result |-> Dumps(p)]]

\* The worker's pipeline ends (with a payload or an error payload) and the
\* outcome is written into the Result record of the job.  The worker only
\* updates the record execute created: when there is none, the job fails
\* and nothing is written.
WorkerFinish ==
  /\ \E w \in Workers : \E p \in WorkerPayloads :
       /\ worker[w] # 0
       /\ worker' = [worker EXCEPT ![w] = 0]
       /\ IF worker[w] \in DOMAIN store
          THEN /\ store' = CompleteResult(store, worker[w], p)
               /\ writes' = [writes EXCEPT ![worker[w]] = Bump(@)]
               /\ jobStatus' = [jobStatus EXCEPT ![worker[w]] = "finished"]
          ELSE /\ store' = store
               /\ writes' = writes
               /\ jobStatus' = [jobStatus EXCEPT ![worker[w]] = "failed"]
  /\ UNCHANGED <<nextId, queue, handler, ereq, erej, eresp, presp>>
  /\ UNCHANGED tvars

\* Mutant: the result field is never included.
NeverIncludesResult(rec) == FALSE

\* Whether get_result includes the result field (line 146).
IncludesResult(rec) == rec.complete

\* get_result, lines 143-150.  Result.query.get yields None for an unknown
\* id, and reading None.complete is an unhandled error (HTTP 500).
get_result(st, result_id) ==
  IF result_id \notin DOMAIN st THEN Abort(500)
  ELSE IF IncludesResult(st[result_id])
       THEN Jsonify(200, [id |-> st[result_id].id,
                          complete |-> st[result_id].complete,
                          result |-> Loads(st[result_id].result)])
       ELSE Jsonify(200, [id |-> st[result_id].id,
                          complete |-> st[result_id].complete])

\* Mutant: a poll hands the record out and removes it from the table.
PollAndForget ==
  /\ \E id \in JobIds \cup {UnknownId} :
       /\ presp' = [id |-> id, resp |-> get_result(store, id)]
       /\ store' = [i \in DOMAIN store \ {id} |-> store[i]]
  /\ ereq' = NoRequest
  /\ erej' = 0
  /\ UNCHANGED <<nextId, queue, handler, eresp, worker, jobStatus, writes>>
  /\ UNCHANGED tvars

\* GET /results/<result_id>
Poll ==
  /\ \E id \in JobIds \cup {UnknownId} :
       presp' = [id |-> id, resp |-> get_result(store, id)]
  /\ ereq' = NoRequest
  /\ erej' = 0
  /\ UNCHANGED <<nextId, queue, handler, eresp, store, worker,
                 jobStatus, writes>>
  /\ UNCHANGED tvars

NextJobs == ExecuteEnqueue \/ ExecuteCommit \/ WorkerTake \/ WorkerFinish \/ Poll

Init == InitTranspile /\ InitJobs

SpecJobs == Init /\ [][NextJobs]_vars

FairSpecJobs ==
  SpecJobs /\ WF_vars(ExecuteCommit) /\ WF_vars(WorkerTake) /\ WF_vars(WorkerFinish)

\* ======================================================= specifications
NextTranspile == TranspileStart \/ LoopIter \/ FinalGuard

SpecTranspile == Init /\ [][NextTranspile]_vars

FairSpecTranspile ==
  SpecTranspile /\ WF_vars(LoopIter) /\ WF_vars(FinalGuard)


\* ================================================================ claims
\* Terminal states of the convergence loop, read off the response.
EndedTooManyQubits ==
  tpc = "done" /\ tresp = Jsonify(200, [error |-> "too many qubits required"])

\* C1 (as stated): in every run of the loop at most one lowering attempt is
\* made with precompile=true.
C1_AtMostOnePrecompileAttempt == preAttempts <= 1

\* C1 (amended): the loop escalates at most once per run, and an
\* unsupported-gate failure of an attempt made with precompile=true ends the
\* loop at once (no further attempt) with HTTP 500; attempts with
\* precompile=true may repeat while lowering returns non-native circuits.
C1_EscalatesAtMostOnce ==
  /\ escalations <= 1
  /\ (last = "UnsupportedGate" /\ lastArg.precompile)
       => /\ tpc \in {"break", "done"}
          /\ tpc = "done" => tresp = Abort(500)

\* C1 witness: a run that made two attempts with precompile=true and ended on
\* an unsupported-gate failure of the second.
C1_Witness ==
  /\ tpc = "done" /\ last = "UnsupportedGate" /\ lastArg.precompile
  /\ preAttempts >= 2 /\ escalations = 1

\* C2: every run of the loop eventually reaches a terminal state, whatever
\* the lowering operation does (checked under FairSpecTranspile).
C2_LoopTerminates == (tpc = "loop") ~> (tpc = "done")

\* C3: a too-many-qubits failure ends the request at once, with HTTP 200 and
\* exactly {"error": "too many qubits required"}; the final guard is not
\* reached and no metrics are returned.
C3_TooManyQubitsEndsRun ==
  last = "TooManyQubits"
    => /\ tpc = "done"
       /\ ~exited
       /\ tresp.status = 200
       /\ DOMAIN tresp.body = {"error"}
       /\ tresp.body.error = "too many qubits required"

\* C3 witness: an attempt has raised too-many-qubits.
C3_Witness == last = "TooManyQubits" /\ attempts >= 1 /\ tresp.status = 200

\* C4 (as stated): a run that ends in Failed:TooManyQubits has made no
\* lowering attempt with precompile=true.
C4_NoPrecompileBeforeTooManyQubits == EndedTooManyQubits => preAttempts = 0

\* C4 (amended): a run that ends in Failed:TooManyQubits ends on the attempt
\* that raised it; it has made attempts with precompile=true only if exactly
\* one earlier attempt failed with unsupported-gate and escalated (two
\* failed attempts in all), and otherwise exactly one attempt failed.
C4_TooManyQubitsAfterAtMostOneEscalation ==
  EndedTooManyQubits
    => /\ last = "TooManyQubits"
       /\ preAttempts = 0 => (failures = 1 /\ escalations = 0 /\ ~lastArg.precompile)
       /\ preAttempts > 0 => (failures = 2 /\ escalations = 1 /\ lastArg.precompile)

\* C4 witness: too-many-qubits produced after escalation.
C4_Witness == EndedTooManyQubits /\ preAttempts > 0 /\ escalations = 1

\* C5: a loaded circuit the backend accepts gets zero lowering attempts and
\* 200 with its own width and depth; a loaded circuit the backend does not
\* accept gets at least one lowering attempt.
C5_NativeIffNoAttempt ==
  (tpc = "done" /\ backendResult = "found")
    => /\ valid_circuit(loaded)
            => /\ attempts = 0
               /\ tresp = Jsonify(200, [depth |-> loaded.depth,
                                        width |-> loaded.n_qubits])
       /\ ~valid_circuit(loaded) => attempts >= 1

\* C6: depth and width are returned only after the loop has exited and the
\* backend accepts the final working circuit; a final circuit the backend
\* does not accept is answered 500 without metrics.
C6_MetricsOnlyIfValid ==
  /\ ("depth" \in DOMAIN tresp.body \/ "width" \in DOMAIN tresp.body)
       => /\ tpc = "done" /\ exited
          /\ valid_circuit(circuit)
          /\ tresp = Jsonify(200, [depth |-> circuit.depth,
                                   width |-> circuit.n_qubits])
  /\ (exited /\ ~valid_circuit(circuit)) => tresp = Abort(500)

\* C6 witness: no attempt failed, the loop exited on a tket circuit, and the
\* final guard rejected it.
C6_Witness ==
  /\ exited /\ failures = 0 /\ attempts >= 1
  /\ is_tk_circuit(circuit) /\ ~valid_circuit(circuit)
  /\ tresp.status = 500

\* C7: once execute has answered 202 for a job id (Location in header and
\* body), and no worker has taken that job yet, the Result record exists
\* under that id and a poll answers {id, complete=false} without result.
C7_PollAfterSubmit ==
  \A j \in JobIds :
    (eresp[j].status = 202 /\ jobStatus[j] = "queued")
      => /\ eresp[j].body.Location = j
         /\ eresp[j].header.Location = j
         /\ j \in DOMAIN store
         /\ get_result(store, j).status = 200
         /\ get_result(store, j).body = [id |-> j, complete |-> FALSE]

\* C7 witness: such a poll has been made.
C7_Witness ==
  \E j \in JobIds :
    /\ eresp[j].status = 202 /\ jobStatus[j] = "queued"
    /\ presp = [id |-> j, resp |-> Jsonify(200, [id |-> j, complete |-> FALSE])]

\* C8: a record becomes complete only by the one completion write of its
\* job, after the job was enqueued and taken; once complete, the record
\* (flag and payload) never changes again.
C8_CompleteOnce ==
  /\ [](\A j \in DOMAIN store :
          store[j].complete => (writes[j] = 1 /\ jobStatus[j] = "finished"))
  /\ [][\A j \in DOMAIN store :
          store[j].complete => (j \in DOMAIN store' /\ store'[j] = store[j])]_vars

\* C8 witness: a record is complete while other jobs are still in flight.
C8_Witness ==
  \E j \in DOMAIN store :
    /\ store[j].complete /\ writes[j] = 1
    /\ \E k \in JobIds : k # j /\ jobStatus[k] = "started"

\* C9: a job execute has accepted, whose worker has run to its end, has a
\* complete Result record (no record stays incomplete forever).
C9_FinishedJobsComplete ==
  \A j \in JobIds :
    (handler[j] = "done" /\ jobStatus[j] \in {"finished", "failed"})
      => (j \in DOMAIN store /\ store[j].complete)

\* C10: for every stored record the poll response is 200 with the record's
\* id and complete flag, and has a result field exactly when the record is
\* complete, the field being the deserialized stored payload.
C10_PollReflectsRecord ==
  \A j \in DOMAIN store :
    LET r == get_result(store, j) IN
      /\ r.status = 200
      /\ r.body.id = j
      /\ r.body.complete = store[j].complete
      /\ ("result" \in DOMAIN r.body) <=> store[j].complete
      /\ store[j].complete
           => (r.body.result \in WorkerPayloads
               /\ Dumps(r.body.result) = store[j].result)

\* C10 witness: a complete record has been polled and its payload returned.
C10_Witness ==
  /\ presp.id \in DOMAIN store
  /\ store[presp.id].complete
  /\ "result" \in DOMAIN presp.resp.body
  /\ presp.resp.body.result \in WorkerPayloads

\* A step that answers a poll with something other than the last answer.
PollAnswered == presp' # presp /\ presp' # NoPoll

\* C11: a poll changes neither the Result table nor the queue (nor anything
\* else of the job machinery), and the answer to a poll of a complete record
\* is the same before and after every step of every actor, so repeated polls
\* of a completed id return the identical payload.
C11_PollIsPure ==
  /\ [][PollAnswered
          => /\ UNCHANGED <<store, queue, worker, jobStatus, handler, eresp,
                            nextId, writes>>
             /\ presp'.resp = get_result(store, presp'.id)]_vars
  /\ [][\A j \in DOMAIN store :
          store[j].complete
            => (j \in DOMAIN store'
                /\ get_result(store', j) = get_result(store, j))]_vars

\* C11 witness: a complete record has been polled while another job was
\* submitted and is still being worked on.
C11_Witness ==
  /\ presp.id \in DOMAIN store
  /\ store[presp.id].complete
  /\ presp.resp = get_result(store, presp.id)
  /\ \E k \in JobIds : k # presp.id /\ jobStatus[k] \in {"queued", "started"}

\* C12: transpile answers 404 when the loader yields no circuit and when
\* the resolver yields no backend, with no lowering attempt.
C12_UnresolvedIs404 ==
  (tpc = "done" /\ (loadResult = "none" \/ backendResult = "none"))
    => (tresp.status = 404 /\ attempts = 0)

\* A request that lacks a required field: an implementation source
\* (impl-url or inline impl-data), qpu-name, provider or sdk.
LacksRequiredField(r) ==
  \/ ~r.json
  \/ (r.impl_url = "absent" /\ ~r.impl_data)
  \/ ~r.qpu_name \/ ~r.provider \/ ~r.sdk

\* A request with an inline implementation, no impl-url, and every other
\* required field.
InlineRequest(r) ==
  /\ r.json /\ r.impl_url = "absent" /\ r.impl_data
  /\ r.qpu_name /\ r.provider /\ r.sdk

\* C13: a transpile or execute request that lacks a required field is
\* answered 400, and nothing is loaded, resolved, lowered, enqueued or
\* written for it.
C13_MissingFieldIs400 ==
  /\ (tpc = "done" /\ LacksRequiredField(treq))
       => /\ tresp.status = 400
          /\ loadResult = "notcalled" /\ backendResult = "notcalled"
          /\ attempts = 0
  /\ (ereq # NoRequest /\ LacksRequiredField(ereq)) => erej = 400

\* C14: a request with an inline implementation and no impl-url is not
\* rejected with 400: it reaches the loader.
C14_InlineImplementationAccepted ==
  (tpc = "done" /\ InlineRequest(treq))
    => (tresp.status # 400 /\ loadResult # "notcalled")

\* The fields test_transpile.py expects next to width and depth.
ExtraMetricFields ==
  {"number-of-gates", "number-of-multi-qubit-gates",
   "multi-qubit-gate-depth", "transpiled-qasm"}

\* C15: every successful transpile response carries, besides width and
\* depth, the gate counts and the transpiled program.
C15_SuccessCarriesGateCounts ==
  (tpc = "done" /\ tresp.status = 200 /\ "depth" \in DOMAIN tresp.body)
    => ExtraMetricFields \subseteq DOMAIN tresp.body

\* C16: with several workers, a job id is held by at most one worker, is
\* never both queued and held, gets at most one completion write, and each
\* job execute has answered for has exactly the one record under its id.
C16_ExactlyOneWorkerPerJob ==
  /\ \A w1, w2 \in Workers :
       (worker[w1] # 0 /\ worker[w1] = worker[w2]) => w1 = w2
  /\ \A w \in Workers : \A i \in 1..Len(queue) : queue[i] # worker[w]
  /\ \A i, k \in 1..Len(queue) : queue[i] = queue[k] => i = k
  /\ \A j \in JobIds :
       /\ writes[j] <= 1
       /\ jobStatus[j] \in {"finished", "failed"}
            => (\A w \in Workers : worker[w] # j)
                /\ (\A i \in 1..Len(queue) : queue[i] # j)
       /\ handler[j] = "done" => (j \in DOMAIN store /\ store[j].id = j)
  /\ \A j \in DOMAIN store : handler[j] = "done"

\* C16 witness: two workers run two different jobs at the same time, one
\* of them on a job whose record is already committed.
C16_Witness ==
  \E w1, w2 \in Workers :
    /\ w1 # w2 /\ worker[w1] # 0 /\ worker[w2] # 0
    /\ worker[w1] \in DOMAIN store

\* C17 (as stated): every attempt made with precompile=true is handed the
\* circuit the loader returned.
C17_PrecompileFromOriginal ==
  (attempts >= 1 /\ lastArg.precompile) => lastArg.circuit = loaded

\* C17 (amended): the attempt made after an escalation is handed the
\* current working circuit, the one whose lowering has just failed: that is
\* the loaded circuit if no earlier attempt of the request succeeded, and
\* otherwise the circuit the last successful attempt returned.
C17_PrecompileFromWorkingCircuit ==
  /\ (tpc = "loop" /\ last = "UnsupportedGate")
       => /\ precompiled_circuit
          /\ circuit = lastArg.circuit
  /\ (attempts >= 1 /\ lastArg.precompile)
       => /\ lastArg.circuit.gen = 0 => lastArg.circuit = loaded
          /\ lastArg.circuit.gen = 1 => lastArg.circuit \in LoweredCircuits
          /\ ~is_tk_circuit(lastArg.circuit)

\* C17 witness: an escalated attempt was handed a circuit that an earlier
\* attempt had produced.
C17_Witness ==
  /\ attempts >= 2 /\ lastArg.precompile /\ escalations = 1
  /\ lastArg.circuit.gen = 1 /\ lastArg.circuit # loaded

\* C18: an unsupported-gate failure of an attempt made with precompile=true
\* leaves the loop without a further attempt, and the request ends with
\* HTTP 500 and no depth or width.
C18_SecondUnsupportedIsUnrecoverable ==
  (last = "UnsupportedGate" /\ lastArg.precompile)
    => /\ tpc \in {"break", "done"}
       /\ circuit = lastArg.circuit
       /\ failures = 2
       /\ tpc = "break" => (tresp = NoResponse /\ ~exited)
       /\ tpc = "done"
            => /\ exited
               /\ tresp.status = 500
               /\ "depth" \notin DOMAIN tresp.body
               /\ "width" \notin DOMAIN tresp.body

\* C18 witness: the request has been answered after such a failure.
C18_Witness ==
  /\ last = "UnsupportedGate" /\ lastArg.precompile
  /\ tpc = "done" /\ exited /\ tresp.status = 500 /\ preAttempts = 1

\* C19: a failure other than unsupported-gate and too-many-qubits ends the
\* request at once with HTTP 500, whatever the flag: the flag is left as it
\* was, the final guard is not reached and no metrics are returned.
C19_OtherFailureIs500 ==
  last = "Other"
    => /\ tpc = "done"
       /\ ~exited
       /\ tresp.status = 500
       /\ "depth" \notin DOMAIN tresp.body
       /\ "width" \notin DOMAIN tresp.body
       /\ "error" \notin DOMAIN tresp.body
       /\ precompiled_circuit = lastArg.precompile
       /\ circuit = lastArg.circuit

\* C19 witness: an unexpected failure of an attempt made with
\* precompile=true.
C19_Witness ==
  last = "Other" /\ lastArg.precompile /\ tpc = "done" /\ tresp.status = 500

\* A step in which an execute handler enqueues or commits.
ExecuteStep == handler' # handler

\* C20: the steps of the execute handler only enqueue the job and add the
\* incomplete record: they start no worker, run no part of the pipeline and
\* complete nothing, and the commit that leads to the 202 response is
\* enabled whatever the workers do.
C20_ExecuteDoesNotRunPipeline ==
  /\ [][ExecuteStep
          => /\ UNCHANGED <<worker, writes, tvars>>
             /\ \A j \in JobIds :
                  /\ jobStatus'[j] # jobStatus[j]
                       => (jobStatus[j] = "unused" /\ jobStatus'[j] = "queued")
                  /\ (j \in DOMAIN store' /\ j \notin DOMAIN store)
                       => store'[j] = [id |-> j, complete |-> FALSE,
                                       result |-> NullResult]
                  /\ j \in DOMAIN store
                       => (j \in DOMAIN store' /\ store'[j] = store[j])]_vars
  /\ [](\A j \in JobIds : handler[j] = "enqueued" => ENABLED ExecuteCommit)

\* C20 witness: execute has answered 202 and no worker has ever started.
C20_Witness ==
  \E j \in JobIds :
    /\ eresp[j].status = 202
    /\ \A w \in Workers : worker[w] = 0
    /\ \A k \in JobIds : jobStatus[k] \in {"unused", "queued"}
    /\ j \in DOMAIN store /\ ~store[j].complete

\* C21: the incomplete record of a job is committed before a worker can
\* take that job: a job that has been taken has its record in the table, and
\* no job fails because its record was missing.
C21_RecordCommittedBeforeWorker ==
  \A j \in JobIds :
    /\ jobStatus[j] \in {"started", "finished", "failed"} => j \in DOMAIN store
    /\ jobStatus[j] # "failed"

\* A step inside one transpile request (not the arrival of a new request).
WithinRequest == tpc \in {"loop", "break"}

\* C22: within one transpile request the flag starts false, changes only
\* from false to true, at most once, only on an unsupported-gate failure of
\* an attempt made without precompilation, and is never reset; at most two
\* lowering attempts of a request fail.
C22_FlagMonotone ==
  /\ []((tpc # "idle" /\ attempts = 0) => ~precompiled_circuit)
  /\ [](precompiled_circuit <=> escalations = 1)
  /\ [](escalations <= 1 /\ failures <= 2)
  /\ [](failures = 2 => (escalations = 1 /\ tpc \in {"break", "done"}))
  /\ [][WithinRequest
          => /\ precompiled_circuit => precompiled_circuit'
             /\ precompiled_circuit' # precompiled_circuit
                  => /\ last' = "UnsupportedGate"
                     /\ ~lastArg'.precompile
                     /\ tpc' = "loop"]_vars

\* C22 witness: a request in which two attempts failed, the escalating
\* unsupported-gate failure and then an unexpected failure.
C22_Witness ==
  /\ tpc = "done" /\ failures = 2 /\ escalations = 1
  /\ precompiled_circuit /\ last = "Other"

TypeOKTranspile ==
  /\ tpc \in {"idle", "loop", "break", "done"}
  /\ treq \in Requests
  /\ circuit \in Circuits \cup {NoCircuit}
  /\ precompiled_circuit \in BOOLEAN
  /\ attempts \in 0..MaxAttempts

====
